---- MODULE Spec2Model ----
(***************************************************************************)
(* Assembly of the static-website stack: StaticWebsiteStack's constructor  *)
(* with the two constructs it instantiates (ApiGatewayLambdaConstruct and  *)
(* CRUDConstruct).  The constructor is straight-line code; every           *)
(* statement that creates a construct, issues a grant or registers a       *)
(* gateway method is one step.  A step either completes or throws; nothing *)
(* in the code catches, so a throw ends the assembly.                      *)
(***************************************************************************)
EXTENDS Naturals, Sequences, FiniteSets, TLC

VARIABLES
  props,        \* CRUDConstructProps.tableId / lambdaPrefixId, and the assets bucket id
  pc,           \* index of the next statement of the constructor
  status,       \* "running", "failed" (a statement threw) or "done" (constructor returned)
  error,        \* "none", or what was thrown
  nodes,        \* the construct tree, in creation order
  env,          \* local constants and private fields: name -> node path, or NONE
  grants,       \* the grants issued on the table, in issue order
  methods,      \* the (path, method, integration) triples registered on the gateway
  distribution  \* NONE, or the props handed to CloudFrontWebDistribution

vars == <<props, pc, status, error, nodes, env, grants, methods, distribution>>

NONE == "undefined"

Range(s) == {s[i] : i \in 1..Len(s)}

----------------------------------------------------------------------------
(* Inputs *)

\* props.tableId: the stack's literal, and ids equal to a generated role id or
\* function id for the prefix "todos".
TableIds == {"Todos-Table", "Gettodos-Role", "Deletetodos-Role", "create-todos", "get-todos"}

\* props.lambdaPrefixId: the stack's literal and another prefix.
LambdaPrefixIds == {"todos", "notes"}

\* The id of the static-assets bucket is a placeholder the user fills in.
BucketIds == {"<enter s3 bucket name>", "StaticWebsiteLoggingBucket", "StaticWebsite-Cert"}

Ops == {"get", "create", "update", "delete"}

----------------------------------------------------------------------------
(* Names the code computes *)

STACK == "StaticWebsiteStack"
RestApiG8WayLambda == STACK \o "/" \o "RestApiG8WayLambda"
TODOS_CRUD == STACK \o "/" \o "TODOS-CRUD"

PathOf(scope, id) == scope \o "/" \o id

\* `Get${lambdaPrefixId}-Role`, `Create${lambdaPrefixId}-Role`, ...
RolePrefix(op) == CASE op = "get" -> "Get" [] op = "create" -> "Create" [] op = "update" -> "Update" [] op = "delete" -> "Delete"

RoleId(op, lambdaPrefixId) == RolePrefix(op) \o lambdaPrefixId \o "-Role"

\* `${fnNamePrefix}-${lambdaPrefixId}`
FunctionId(fnNamePrefix, lambdaPrefixId) == fnNamePrefix \o "-" \o lambdaPrefixId

\* the local constant holding each role inside _createLambdaRoles
RoleLocal(op) == op \o "LambdaRole"

----------------------------------------------------------------------------
(* The statements, in the order the code executes them *)

\* Fault injection: every role is given write access
GrantCallAllWrite(op) == "grantWriteData"

\* grantReadData for the Read role, grantWriteData for the other three
GrantCall(op) == IF op = "get" THEN "grantReadData" ELSE "grantWriteData"

RoleAndGrant(op) ==
  << [step |-> "Role", op |-> op, var |-> RoleLocal(op)],
     [step |-> "grant", call |-> GrantCall(op), grantee |-> RoleLocal(op)] >>

\* the dictionary _createLambdaRoles returns, destructured by the constructor
ReturnedRoles ==
  [createRole |-> "createLambdaRole", updateRole |-> "updateLambdaRole", getRole |-> "getLambdaRole", deleteRole |-> "deleteLambdaRole"]

\* Fault injection: each grant is issued before the role it names is created
GrantThenRole(op) ==
  << [step |-> "grant", call |-> GrantCall(op), grantee |-> RoleLocal(op)],
     [step |-> "Role", op |-> op, var |-> RoleLocal(op)] >>

_createLambdaRolesGrantFirst ==
  GrantThenRole("get")
  \o GrantThenRole("create")
  \o GrantThenRole("update")
  \o GrantThenRole("delete")
  \o << [step |-> "returnRoles"] >>

_createLambdaRoles ==
  RoleAndGrant("get")
  \o RoleAndGrant("create")
  \o RoleAndGrant("update")
  \o RoleAndGrant("delete")
  \o << [step |-> "returnRoles"] >>

CreateLambdasCall(fnNamePrefix, role, field) ==
  [step |-> "_createLambdas", fnNamePrefix |-> fnNamePrefix, role |-> role, field |-> field]

\* Fault injection: the Get lambda is handed createRole
CRUDConstructorSharedRole ==
  << [step |-> "CRUDConstruct"],
     [step |-> "Table"] >>
  \o _createLambdaRoles
  \o << CreateLambdasCall("create", "createRole", "_createLambda"),
     CreateLambdasCall("update", "updateRole", "_updateLambda"),
     CreateLambdasCall("delete", "deleteRole", "_deleteLambda"),
     CreateLambdasCall("get", "createRole", "_getLambda") >>

CRUDConstructor ==
  << [step |-> "CRUDConstruct"],
     [step |-> "Table"] >>
  \o _createLambdaRoles
  \o << CreateLambdasCall("create", "createRole", "_createLambda"),
     CreateLambdasCall("update", "updateRole", "_updateLambda"),
     CreateLambdasCall("delete", "deleteRole", "_deleteLambda"),
     CreateLambdasCall("get", "getRole", "_getLambda") >>

ApiGatewayLambdaConstructor == << [step |-> "ApiGatewayLambdaConstruct"], [step |-> "RestApi"] >>

\* Fault injection: the PUT and DELETE entries forward to each other's function
lambdaApisSwapped ==
  << [name |-> "getTodos", fn |-> "GetLambda", type |-> "GET"],
     [name |-> "createTodo", fn |-> "CreateLambda", type |-> "POST"],
     [name |-> "updateTodo", fn |-> "DeleteLambda", type |-> "PUT"],
     [name |-> "deleteTodo", fn |-> "UpdateLambda", type |-> "DELETE"] >>

lambdaApis ==
  << [name |-> "getTodos", fn |-> "GetLambda", type |-> "GET"],
     [name |-> "createTodo", fn |-> "CreateLambda", type |-> "POST"],
     [name |-> "updateTodo", fn |-> "UpdateLambda", type |-> "PUT"],
     [name |-> "deleteTodo", fn |-> "DeleteLambda", type |-> "DELETE"] >>

ForEachLambdaApi == [i \in 1..Len(lambdaApis) |-> [step |-> "addLambdaIntegration", lambda |-> lambdaApis[i]]]

Buckets == << [step |-> "Bucket", which |-> "staticAssetsBucket"], [step |-> "Bucket", which |-> "loggingBucket"] >>

\* Fault injection: the buckets are created first, the CRUD construct before the gateway
StackConstructorPrerequisitesFirst ==
  << [step |-> "fromLookup"],
     [step |-> "Certificate"] >>
  \o Buckets
  \o CRUDConstructor
  \o ApiGatewayLambdaConstructor
  \o ForEachLambdaApi
  \o << [step |-> "OriginAccessIdentity"],
     [step |-> "CloudFrontWebDistribution"],
     [step |-> "ARecord"],
     [step |-> "return"] >>

StackConstructor ==
  << [step |-> "fromLookup"],
     [step |-> "Certificate"] >>
  \o ApiGatewayLambdaConstructor
  \o CRUDConstructor
  \o ForEachLambdaApi
  \o Buckets
  \o << [step |-> "OriginAccessIdentity"],
     [step |-> "CloudFrontWebDistribution"],
     [step |-> "ARecord"],
     [step |-> "return"] >>

Locals ==
  {"hostedZone", "cert", "restApi", "_apiEndpoint", "todosCRUD", "_table", "getLambdaRole", "createLambdaRole", "updateLambdaRole", "deleteLambdaRole", "getRole", "createRole", "updateRole", "deleteRole", "_getLambda", "_createLambda", "_updateLambda", "_deleteLambda", "staticAssetsBucket", "loggingBucket", "accessIdentity", "distribution"}

----------------------------------------------------------------------------
Init ==
  /\ props \in [tableId : TableIds, lambdaPrefixId : LambdaPrefixIds, bucketId : BucketIds]
  /\ pc = 1
  /\ status = "running"
  /\ error = "none"
  /\ nodes = << >>
  /\ env = [v \in Locals |-> NONE]
  /\ grants = << >>
  /\ methods = << >>
  /\ distribution = NONE

\* The statement about to execute.
Running == status = "running" /\ pc <= Len(StackConstructor)

At(step) == Running /\ StackConstructor[pc].step = step

\* Fault injection: the exception is caught and the constructor carries on
ThrowSwallowed(e) ==
  /\ error' = e
  /\ pc' = pc + 1
  /\ UNCHANGED <<props, status, nodes, env, grants, methods, distribution>>

\* An exception leaves the constructor: no statement after the throwing one runs.
Throw(e) ==
  /\ status' = "failed"
  /\ error' = e
  /\ UNCHANGED <<props, pc, nodes, env, grants, methods, distribution>>

\* Fault injection: sibling names are not checked
TakenNever(scope, id) == FALSE

\* Construct.constructor(scope, id): the node joins its scope's children; a
\* name already taken in that scope throws.
Taken(scope, id) == \E n \in Range(nodes) : n.scope = scope /\ n.id = id

\* The scope and id of the construct a creating statement hands to super(scope, id).
BucketId(which) == IF which = "staticAssetsBucket" THEN props.bucketId ELSE "StaticWebsiteLoggingBucket"

Creates(s) ==
  CASE s.step = "fromLookup" -> <<STACK, "Static-Website-HostedZone">>
    [] s.step = "Certificate" -> <<STACK, "StaticWebsite-Cert">>
    [] s.step = "ApiGatewayLambdaConstruct" -> <<STACK, "RestApiG8WayLambda">>
    [] s.step = "RestApi" -> <<RestApiG8WayLambda, "static-website-api">>
    [] s.step = "CRUDConstruct" -> <<STACK, "TODOS-CRUD">>
    [] s.step = "Table" -> <<TODOS_CRUD, props.tableId>>
    [] s.step = "Role" -> <<TODOS_CRUD, RoleId(s.op, props.lambdaPrefixId)>>
    [] s.step = "_createLambdas" -> <<TODOS_CRUD, FunctionId(s.fnNamePrefix, props.lambdaPrefixId)>>
    [] s.step = "Bucket" -> <<STACK, BucketId(s.which)>>
    [] s.step = "OriginAccessIdentity" -> <<STACK, "OriginAccessIdentity">>
    [] s.step = "CloudFrontWebDistribution" -> <<STACK, "Static-Website-Distribution">>
    [] s.step = "ARecord" -> <<STACK, "CloudFrontAliasRecord">>

\* One statement: it throws NameCollision when `taken`, may throw for any other
\* reason the library finds, and otherwise has `effect` and control moves on.
Step(taken, effect) ==
  IF taken
    THEN Throw("NameCollision")
    ELSE \E ok \in BOOLEAN :
           IF ok
             THEN effect /\ pc' = pc + 1 /\ UNCHANGED <<props, status, error>>
             ELSE Throw("Error")

AddNode(kind, at, role, uses, var) ==
  /\ nodes' = Append(nodes, [path |-> PathOf(at[1], at[2]), scope |-> at[1], id |-> at[2], kind |-> kind, role |-> role, uses |-> uses])
  /\ env' = IF var = NONE THEN env ELSE [env EXCEPT ![var] = PathOf(at[1], at[2])]

\* The statement at pc is new <kind>(scope, id, {..uses..}), its result bound to
\* `var` (NONE: not bound).
New(kind, role, uses, var) ==
  LET at == Creates(StackConstructor[pc]) IN Step(Taken(at[1], at[2]), AddNode(kind, at, role, uses, var) /\ UNCHANGED <<grants, methods, distribution>>)

----------------------------------------------------------------------------
(* StaticWebsiteStack.constructor, up to the CRUD construct *)

FromLookup == At("fromLookup") /\ New("HostedZone", NONE, {}, "hostedZone")

NewCertificate == At("Certificate") /\ New("Certificate", NONE, {env["hostedZone"]}, "cert")

(* ApiGatewayLambdaConstruct.constructor *)

NewApiGatewayLambdaConstruct == At("ApiGatewayLambdaConstruct") /\ New("ApiGatewayLambdaConstruct", NONE, {}, "restApi")

\* restApiProps.domainName.certificate is the stack's cert
NewRestApi == At("RestApi") /\ New("RestApi", NONE, {env["cert"]}, "_apiEndpoint")

\* get ApiEndpoint / get StageName: both read the RestApi
ApiEndpoint == env["_apiEndpoint"]

StageName == env["_apiEndpoint"]

(* CRUDConstruct.constructor *)

NewCRUDConstruct == At("CRUDConstruct") /\ New("CRUDConstruct", NONE, {}, "todosCRUD")

NewTable == At("Table") /\ New("Table", NONE, {}, "_table")

NewRole ==
  /\ At("Role")
  /\ LET s == StackConstructor[pc]
     IN  New("Role", NONE, {}, s.var)

Capability(call) == IF call = "grantReadData" THEN "Read" ELSE "Write"

\* table.grantReadData(role) / table.grantWriteData(role)
Grant ==
  /\ At("grant")
  /\ LET s == StackConstructor[pc]
     IN  Step(FALSE, /\ grants' = Append(grants, [subject |-> env[s.grantee], object |-> env["_table"], capability |-> Capability(s.call)])
                     /\ UNCHANGED <<nodes, env, methods, distribution>>)

\* return { createRole: createLambdaRole, ... } and its destructuring
ReturnRoles ==
  /\ At("returnRoles")
  /\ env' = [v \in Locals |-> IF v \in DOMAIN ReturnedRoles THEN env[ReturnedRoles[v]] ELSE env[v]]
  /\ pc' = pc + 1
  /\ UNCHANGED <<props, status, error, nodes, grants, methods, distribution>>

\* this._xLambda = this._createLambdas(prefix, package, fnNamePrefix, this._table.tableName, xRole)
CreateLambdas ==
  /\ At("_createLambdas")
  /\ LET s == StackConstructor[pc]
     IN  New("Function", env[s.role], {env[s.role], env["_table"]}, s.field)

\* Fault injection: GetLambda and UpdateLambda return each other's field
AccessorCrossed(name) ==
  CASE name = "GetLambda" -> env["_updateLambda"]
    [] name = "UpdateLambda" -> env["_getLambda"]
    [] name = "DeleteLambda" -> env["_deleteLambda"]
    [] name = "CreateLambda" -> env["_createLambda"]

\* get GetLambda / UpdateLambda / DeleteLambda / CreateLambda
Accessor(name) ==
  CASE name = "GetLambda" -> env["_getLambda"]
    [] name = "UpdateLambda" -> env["_updateLambda"]
    [] name = "DeleteLambda" -> env["_deleteLambda"]
    [] name = "CreateLambda" -> env["_createLambda"]

----------------------------------------------------------------------------
(* StaticWebsiteStack.constructor, after the CRUD construct *)

\* resourceForPath(`/api/${lambda.name}`).addMethod(lambda.type, new LambdaIntegration(lambda.fn))
AddLambdaIntegration ==
  /\ At("addLambdaIntegration")
  /\ LET lambda == StackConstructor[pc].lambda
         path == "/api/" \o lambda.name
     IN  Step(\E m \in Range(methods) : m.path = path /\ m.type = lambda.type,
              /\ methods' = Append(methods, [path |-> path, type |-> lambda.type, fn |-> Accessor(lambda.fn), api |-> env["_apiEndpoint"]])
              /\ UNCHANGED <<nodes, env, grants, distribution>>)

NewBucket ==
  /\ At("Bucket")
  /\ LET s == StackConstructor[pc]
     IN  New("Bucket", NONE, {}, s.which)

\* the comment of the identity reads staticAssetsBucket.bucketArn
NewOriginAccessIdentity ==
  At("OriginAccessIdentity") /\ New("OriginAccessIdentity", NONE, {env["staticAssetsBucket"]}, "accessIdentity")

\* CloudFrontAllowedMethods / CloudFrontAllowedCachedMethods
MethodSet(m) ==
  CASE m = "ALL" -> {"GET", "HEAD", "OPTIONS", "PUT", "PATCH", "POST", "DELETE"}
    [] m = "GET_HEAD_OPTIONS" -> {"GET", "HEAD", "OPTIONS"}
    [] m = "GET_HEAD" -> {"GET", "HEAD"}

(* The behaviours of the array literal.  TTLs in minutes; a property the
   literal leaves out is NONE. *)

\* Fault injection: the /api/* behaviour is marked default too
ApiBehaviorMarkedDefault ==
  [pathPattern |-> "/api/*", isDefaultBehavior |-> TRUE, allowedMethods |-> "ALL", cachedMethods |-> "GET_HEAD_OPTIONS", defaultTtl |-> 0, maxTtl |-> NONE, queryString |-> TRUE, cookies |-> "none"]

ApiBehavior ==
  [pathPattern |-> "/api/*", isDefaultBehavior |-> FALSE, allowedMethods |-> "ALL", cachedMethods |-> "GET_HEAD_OPTIONS", defaultTtl |-> 0, maxTtl |-> NONE, queryString |-> TRUE, cookies |-> "none"]

DefaultBehavior ==
  [pathPattern |-> NONE, isDefaultBehavior |-> TRUE, allowedMethods |-> "ALL", cachedMethods |-> NONE, defaultTtl |-> 3, maxTtl |-> 5, queryString |-> TRUE, cookies |-> "all"]

CustomOriginConfig ==
  [origin |-> "customOriginSource", target |-> ApiEndpoint, originPath |-> StageName, originAccessIdentity |-> NONE, behaviors |-> << ApiBehavior >>]

S3OriginConfig ==
  [origin |-> "s3OriginSource", target |-> env["staticAssetsBucket"], originPath |-> NONE, originAccessIdentity |-> env["accessIdentity"], behaviors |-> << DefaultBehavior >>]

\* Fault injection: the storage origin is listed first
originsAndBehaviorStorageFirst == << S3OriginConfig, CustomOriginConfig >>

\* The source configurations, in the order of the array literal.
originsAndBehavior == << CustomOriginConfig, S3OriginConfig >>

OriginRefs(configs) ==
  UNION {{configs[i].target, configs[i].originPath, configs[i].originAccessIdentity} : i \in 1..Len(configs)} \ {NONE}

NewDistribution ==
  /\ At("CloudFrontWebDistribution")
  /\ Step(Taken(Creates(StackConstructor[pc])[1], Creates(StackConstructor[pc])[2]),
          /\ AddNode("CloudFrontWebDistribution", Creates(StackConstructor[pc]), NONE, OriginRefs(originsAndBehavior) \cup {env["cert"], env["loggingBucket"]}, "distribution")
          /\ distribution' = [originConfigs |-> originsAndBehavior, viewerCertificate |-> env["cert"], loggingBucket |-> env["loggingBucket"]]
          /\ UNCHANGED <<grants, methods>>)

NewARecord == At("ARecord") /\ New("ARecord", NONE, {env["hostedZone"], env["distribution"]}, NONE)

\* the constructor returns: the stack is complete
Return ==
  /\ At("return")
  /\ status' = "done"
  /\ pc' = pc + 1
  /\ UNCHANGED <<props, error, nodes, env, grants, methods, distribution>>

Next ==
  \/ FromLookup
  \/ NewCertificate
  \/ NewApiGatewayLambdaConstruct
  \/ NewRestApi
  \/ NewCRUDConstruct
  \/ NewTable
  \/ NewRole
  \/ Grant
  \/ ReturnRoles
  \/ CreateLambdas
  \/ AddLambdaIntegration
  \/ NewBucket
  \/ NewOriginAccessIdentity
  \/ NewDistribution
  \/ NewARecord
  \/ Return

Spec == Init /\ [][Next]_vars

----------------------------------------------------------------------------
(* Reading the state *)

Exists(path) == \E n \in Range(nodes) : n.path = path

Node(path) == CHOOSE n \in Range(nodes) : n.path = path

IsA(path, kind) == Exists(path) /\ Node(path).kind = kind

Index(path) == CHOOSE i \in 1..Len(nodes) : nodes[i].path = path

OfKind(kind) == {i \in 1..Len(nodes) : nodes[i].kind = kind}

\* the private field holding each operation's function
LambdaField(op) == "_" \o op \o "Lambda"

\* the CRUD constructor has run to its end
CRUDBuilt == \A op \in Ops : env[LambdaField(op)] # NONE

\* the role the operation's function was created with
RoleOfOp(op) == Node(env[LambdaField(op)]).role

GrantsTo(role) == {i \in 1..Len(grants) : grants[i].subject = role}

----------------------------------------------------------------------------
(* C1: once the CRUD construct is built, the four functions are bound to four
   pairwise distinct execution roles, each a Role of the construct, and no role
   is the role of more than one function. *)
C1_OwnRolePerOperation ==
  /\ \A i, j \in OfKind("Function") : i # j => nodes[i].role # nodes[j].role
  /\ CRUDBuilt =>
       /\ \A op \in Ops : IsA(env[LambdaField(op)], "Function") /\ IsA(RoleOfOp(op), "Role")
       /\ Cardinality({env[LambdaField(op)] : op \in Ops}) = 4
       /\ Cardinality({RoleOfOp(op) : op \in Ops}) = 4

C1_Witness == CRUDBuilt /\ Cardinality(OfKind("Function")) = 4 /\ Cardinality(OfKind("Role")) = 4

(* C2: every grant is on the CRUD table and to a role of the construct, no role
   is granted twice, and once the construct is built there are exactly four
   grants: Read, and only Read, to the role of get; Write, and only Write, to
   the role of each of create, update and delete. *)
C2_OneGrantPerOperation ==
  /\ \A i \in 1..Len(grants) :
       /\ IsA(grants[i].subject, "Role")
       /\ IsA(grants[i].object, "Table") /\ grants[i].object = env["_table"]
       /\ GrantsTo(grants[i].subject) = {i}
  /\ CRUDBuilt =>
       /\ Len(grants) = 4
       /\ \A op \in Ops : \E i \in 1..Len(grants) :
            /\ GrantsTo(RoleOfOp(op)) = {i}
            /\ grants[i].capability = (IF op = "get" THEN "Read" ELSE "Write")

C2_Witness == CRUDBuilt /\ Len(grants) = 4 /\ {grants[i].capability : i \in 1..Len(grants)} = {"Read", "Write"}


----------------------------------------------------------------------------
\* every node of kind `later` was created after at least n nodes of kind `earlier`
PrecededBy(later, earlier, n) == \A j \in OfKind(later) : Cardinality({i \in OfKind(earlier) : i < j}) >= n

(* C3, as stated: the certificate and both buckets are instantiated first, then
   the CRUD construct, then the gateway with its integrations, then the
   distribution, and last the alias record. *)
C3_SpecOrder ==
  /\ PrecededBy("CRUDConstruct", "Certificate", 1) /\ PrecededBy("CRUDConstruct", "Bucket", 2)
  /\ PrecededBy("ApiGatewayLambdaConstruct", "CRUDConstruct", 1) /\ PrecededBy("ApiGatewayLambdaConstruct", "Bucket", 2)
  /\ methods # << >> => OfKind("RestApi") # {}
  /\ PrecededBy("CloudFrontWebDistribution", "ApiGatewayLambdaConstruct", 1)
  /\ PrecededBy("ARecord", "CloudFrontWebDistribution", 1)

(* C3, amended: the steps run in the constructor's order: hosted-zone lookup,
   certificate, gateway construct and its RestApi, CRUD construct (table, roles,
   functions), the four integrations, assets bucket, logging bucket, access
   identity, distribution, alias record.  The gateway precedes the CRUD
   construct and both precede the buckets. *)
C3_CodeOrder ==
  /\ PrecededBy("Certificate", "HostedZone", 1)
  /\ PrecededBy("ApiGatewayLambdaConstruct", "Certificate", 1)
  /\ PrecededBy("RestApi", "ApiGatewayLambdaConstruct", 1)
  /\ PrecededBy("CRUDConstruct", "RestApi", 1)
  /\ PrecededBy("Table", "CRUDConstruct", 1)
  /\ PrecededBy("Role", "Table", 1)
  /\ PrecededBy("Function", "Role", 4)
  /\ methods # << >> => Cardinality(OfKind("Function")) = 4
  /\ OfKind("Bucket") # {} => Len(methods) = 4
  /\ env["loggingBucket"] # NONE => env["staticAssetsBucket"] # NONE /\ Index(env["staticAssetsBucket"]) < Index(env["loggingBucket"])
  /\ PrecededBy("OriginAccessIdentity", "Bucket", 2)
  /\ PrecededBy("CloudFrontWebDistribution", "OriginAccessIdentity", 1)
  /\ PrecededBy("ARecord", "CloudFrontWebDistribution", 1)

C3_Witness == status = "done" /\ OfKind("ARecord") # {} /\ Len(methods) = 4

----------------------------------------------------------------------------
\* node i references only nodes created before it
UsesExist(i) == \A u \in nodes[i].uses : u # NONE /\ \E j \in 1..(i - 1) : nodes[j].path = u

UsesKind(i, kind, n) == Cardinality({u \in nodes[i].uses : IsA(u, kind)}) >= n

ScopeExists(i) == nodes[i].scope = STACK \/ \E j \in 1..(i - 1) : nodes[j].path = nodes[i].scope

(* C4: nothing is created before what it references exists: every node after
   its scope and after every handle it uses; a grant after its role and the
   table; a function after its role and the table; an integration after its
   function and the gateway; the certificate after the hosted zone; the gateway
   and the distribution after the certificate; the distribution after the
   gateway, both buckets and the access identity; the alias record after the
   distribution (and the hosted zone). *)
C4_ReferencesExist ==
  /\ \A i \in 1..Len(nodes) : UsesExist(i) /\ ScopeExists(i)
  /\ \A i \in 1..Len(grants) : IsA(grants[i].subject, "Role") /\ IsA(grants[i].object, "Table")
  /\ \A i \in OfKind("Function") : IsA(nodes[i].role, "Role") /\ nodes[i].role \in nodes[i].uses /\ UsesKind(i, "Table", 1)
  /\ \A i \in 1..Len(methods) : IsA(methods[i].fn, "Function") /\ IsA(methods[i].api, "RestApi")
  /\ \A i \in OfKind("Certificate") : UsesKind(i, "HostedZone", 1)
  /\ \A i \in OfKind("RestApi") : UsesKind(i, "Certificate", 1)
  /\ \A i \in OfKind("CloudFrontWebDistribution") : UsesKind(i, "Certificate", 1) /\ UsesKind(i, "RestApi", 1) /\ UsesKind(i, "Bucket", 2) /\ UsesKind(i, "OriginAccessIdentity", 1)
  /\ \A i \in OfKind("ARecord") : UsesKind(i, "CloudFrontWebDistribution", 1) /\ UsesKind(i, "HostedZone", 1)

C4_Witness == OfKind("ARecord") # {} /\ Len(grants) = 4 /\ Len(methods) = 4

----------------------------------------------------------------------------
HttpMethod(op) == CASE op = "get" -> "GET" [] op = "create" -> "POST" [] op = "update" -> "PUT" [] op = "delete" -> "DELETE"

\* the gateway holds exactly one entry per operation: path(op), the operation's
\* method, forwarding to the function created for that operation
RegisteredAs(path) ==
  /\ Len(methods) = 4
  /\ \A op \in Ops : \E i \in 1..Len(methods) :
       /\ {j \in 1..Len(methods) : methods[j].fn = env[LambdaField(op)]} = {i}
       /\ {j \in 1..Len(methods) : methods[j].path = path[op]} = {i}
       /\ methods[i].type = HttpMethod(op)
       /\ IsA(methods[i].fn, "Function") /\ Node(methods[i].fn).id = FunctionId(op, props.lambdaPrefixId)

OperationPath == [op \in Ops |-> "/api/" \o op]

ApiName(op) ==
  CASE op = "get" -> "getTodos"
    [] op = "create" -> "createTodo"
    [] op = "update" -> "updateTodo"
    [] op = "delete" -> "deleteTodo"

ApiNamePath == [op \in Ops |-> "/api/" \o ApiName(op)]

(* C5, as stated: the registered paths are /api/get, /api/create, /api/update
   and /api/delete, one per function, each with its operation's method and
   forwarding to that operation's function. *)
C5_OperationNamePaths == status = "done" => RegisteredAs(OperationPath)

(* C5, amended: the registered paths are /api/getTodos, /api/createTodo,
   /api/updateTodo and /api/deleteTodo (the name of each lambdaApis entry), one
   per function, with GET, POST, PUT and DELETE in that order, each forwarding
   to the function of the same operation; no entry exists before the four
   functions do. *)
C5_ApiNamePaths ==
  /\ \A i \in 1..Len(methods) : methods[i].path \in {ApiNamePath[op] : op \in Ops}
  /\ status = "done" => RegisteredAs(ApiNamePath)

C5_Witness == status = "done" /\ Len(methods) = 4 /\ methods[1].path = "/api/getTodos"


----------------------------------------------------------------------------
(* The routing table of a distribution *)

RECURSIVE Concat(_)
Concat(ss) == IF ss = << >> THEN << >> ELSE Head(ss) \o Concat(Tail(ss))

\* a source configuration's behaviours, each with the origin it routes to
BindingsOf(c) ==
  [i \in 1..Len(c.behaviors) |-> [pathPattern |-> c.behaviors[i].pathPattern, isDefault |-> c.behaviors[i].isDefaultBehavior, origin |-> c.origin, target |-> c.target, allowedMethods |-> c.behaviors[i].allowedMethods, cachedMethods |-> c.behaviors[i].cachedMethods]]

\* originConfigs: the behaviours of all source configurations, in the order given
RoutingTable(configs) == Concat([i \in 1..Len(configs) |-> BindingsOf(configs[i])])

Defaults(t) == {i \in 1..Len(t) : t[i].isDefault}

\* the cached-method sets a binding can end up with: the one it names, or, when
\* it names none, any value of CloudFrontAllowedCachedMethods
CachedChoices(b) == IF b.cachedMethods = NONE THEN {"GET_HEAD", "GET_HEAD_OPTIONS"} ELSE {b.cachedMethods}

ValidCachedMethods(t) == \A i \in 1..Len(t) : \A c \in CachedChoices(t[i]) : MethodSet(c) \subseteq MethodSet(t[i].allowedMethods)

\* specificity of a path pattern: its length
Specificity(pathPattern) == Len(pathPattern)

Attached == env["distribution"] # NONE

(* C6: the routing table attached to the distribution, when it has exactly one
   default binding and valid cached-method subsets, has every non-default
   binding before the default one and the non-default bindings in descending
   specificity; it has exactly two entries, /api/* to the gateway and then the
   default to the assets bucket. *)
C6_RoutingOrder ==
  Attached =>
    LET t == RoutingTable(distribution.originConfigs)
    IN  /\ (Cardinality(Defaults(t)) = 1 /\ ValidCachedMethods(t)) =>
             /\ \A i \in 1..Len(t) : \A d \in Defaults(t) : i \notin Defaults(t) => i < d
             /\ \A i, j \in (1..Len(t)) \ Defaults(t) : i < j => Specificity(t[i].pathPattern) >= Specificity(t[j].pathPattern)
        /\ Len(t) = 2
        /\ t[1].pathPattern = "/api/*" /\ ~t[1].isDefault /\ IsA(t[1].target, "RestApi") /\ t[1].target = env["_apiEndpoint"]
        /\ t[2].isDefault /\ IsA(t[2].target, "Bucket") /\ t[2].target = env["staticAssetsBucket"]

C6_Witness ==
  Attached /\ Len(RoutingTable(distribution.originConfigs)) = 2 /\ Specificity(RoutingTable(distribution.originConfigs)[1].pathPattern) = 6

(* C7: every routing table attached to a distribution has exactly one default
   binding, and the cached methods of every binding are among its allowed
   methods. *)
C7_ValidRoutingTable ==
  Attached =>
    LET t == RoutingTable(distribution.originConfigs)
    IN  Cardinality(Defaults(t)) = 1 /\ ValidCachedMethods(t)

C7_Witness == Attached /\ status = "done" /\ Defaults(RoutingTable(distribution.originConfigs)) = {2}


----------------------------------------------------------------------------
(* Failure *)

Creating(s) == s.step \notin {"grant", "returnRoles", "addLambdaIntegration", "return"}

\* how many statements of kind `steps` lie before statement p
Before(p, steps) == Cardinality({i \in 1..(p - 1) : StackConstructor[i].step \in steps})

CreatingSteps == {StackConstructor[i].step : i \in {j \in 1..Len(StackConstructor) : Creating(StackConstructor[j])}}

\* the statement at pc would give a construct a name its scope already holds
Colliding ==
  Running /\ Creating(StackConstructor[pc]) /\ Taken(Creates(StackConstructor[pc])[1], Creates(StackConstructor[pc])[2])

(* C9, as stated: when a sibling name is taken, assembly fails with
   NameCollision and nothing has been materialized, the siblings declared
   before the colliding one included. *)
C9_NothingMaterialized == error = "NameCollision" => status = "failed" /\ nodes = << >> /\ grants = << >> /\ methods = << >>

(* C9, amended: no two siblings ever share a name; a statement that would give
   a construct a name already taken in its scope throws NameCollision and
   creates nothing, so assembly stops there: everything declared before the
   colliding statement stays in the tree (nothing is rolled back), nothing after
   it is created, and the constructor never returns. *)
C9_CollisionAborts ==
  /\ [](\A i, j \in 1..Len(nodes) : i # j => nodes[i].path # nodes[j].path)
  /\ [][Colliding => status' = "failed" /\ error' = "NameCollision" /\ nodes' = nodes /\ grants' = grants /\ methods' = methods]_vars
  /\ [](error = "NameCollision" =>
         /\ status = "failed"
         /\ Creating(StackConstructor[pc]) /\ Taken(Creates(StackConstructor[pc])[1], Creates(StackConstructor[pc])[2])
         /\ Len(nodes) = Before(pc, CreatingSteps)
         /\ Len(grants) = Before(pc, {"grant"})
         /\ Len(methods) = Before(pc, {"addLambdaIntegration"}))
  /\ [][error = "NameCollision" => UNCHANGED vars]_vars

C9_Witness ==
  error = "NameCollision" /\ StackConstructor[pc].step = "_createLambdas" /\ IsA(env["_table"], "Table") /\ Cardinality(OfKind("Role")) = 4 /\ Len(grants) = 4

\* all six steps have completed
Complete ==
  /\ \A k \in {"HostedZone", "Certificate", "OriginAccessIdentity"} : Cardinality(OfKind(k)) = 1
  /\ Cardinality(OfKind("Bucket")) = 2
  /\ Cardinality(OfKind("CRUDConstruct")) = 1 /\ Cardinality(OfKind("Table")) = 1
  /\ Cardinality(OfKind("Role")) = 4 /\ Cardinality(OfKind("Function")) = 4 /\ Len(grants) = 4
  /\ Cardinality(OfKind("ApiGatewayLambdaConstruct")) = 1 /\ Cardinality(OfKind("RestApi")) = 1 /\ Len(methods) = 4
  /\ Cardinality(OfKind("CloudFrontWebDistribution")) = 1 /\ Attached
  /\ Cardinality(OfKind("ARecord")) = 1

(* C10: when a statement fails it changes nothing and nothing runs after it (no
   later step, no retry: control never returns to an earlier statement); the
   constructor returns only with no error and all six steps complete. *)
C10_AllOrNothing ==
  /\ [](status = "done" => error = "none" /\ Complete)
  /\ [](status = "failed" <=> error # "none")
  /\ [][status' = "failed" => UNCHANGED <<pc, nodes, env, grants, methods, distribution>>]_vars
  /\ [][status # "running" => UNCHANGED vars]_vars
  /\ [][pc' >= pc]_vars

C10_Witness ==
  status = "failed" /\ error = "Error" /\ StackConstructor[pc].step = "CloudFrontWebDistribution" /\ ~Attached /\ Len(methods) = 4

----------------------------------------------------------------------------
\* the accessor of each operation's function
AccessorName(op) == CASE op = "get" -> "GetLambda" [] op = "create" -> "CreateLambda" [] op = "update" -> "UpdateLambda" [] op = "delete" -> "DeleteLambda"

\* the capabilities granted to the role a function runs as
CapabilitiesOf(fn) == {grants[i].capability : i \in GrantsTo(Node(fn).role)}

(* C11: once the CRUD construct is built, the accessor of each operation
   returns a function that is set, was created for that operation (its id is
   <op>-<prefix>) and runs as that operation's role (the role created as
   <Op><prefix>-Role); every function registered on the gateway is one an
   accessor returns, under the method of its own operation, so what GET reaches
   holds the Read grant only and what POST, PUT or DELETE reaches holds the
   Write grant only; when assembly is done all four methods are registered. *)
C11_AccessorsLeastPrivilege ==
  /\ CRUDBuilt =>
       \A op \in Ops :
         LET fn == Accessor(AccessorName(op))
         IN  /\ fn # NONE /\ IsA(fn, "Function")
             /\ Node(fn).id = FunctionId(op, props.lambdaPrefixId)
             /\ Node(fn).role = PathOf(TODOS_CRUD, RoleId(op, props.lambdaPrefixId))
             /\ IsA(Node(fn).role, "Role")
             /\ \A other \in Ops \ {op} : fn # Accessor(AccessorName(other))
             /\ CapabilitiesOf(fn) = (IF op = "get" THEN {"Read"} ELSE {"Write"})
  /\ \A i \in 1..Len(methods) :
       /\ CRUDBuilt
       /\ \E op \in Ops : methods[i].fn = Accessor(AccessorName(op)) /\ methods[i].type = HttpMethod(op)
       /\ CapabilitiesOf(methods[i].fn) = (IF methods[i].type = "GET" THEN {"Read"} ELSE {"Write"})
  /\ status = "done" => {methods[i].type : i \in 1..Len(methods)} = {"GET", "POST", "PUT", "DELETE"}

C11_Witness ==
  /\ status = "done" /\ Len(methods) = 4
  /\ \E i \in 1..Len(methods) : methods[i].type = "GET" /\ methods[i].fn = Accessor("GetLambda") /\ CapabilitiesOf(methods[i].fn) = {"Read"}
  /\ \E i \in 1..Len(methods) : methods[i].type = "DELETE" /\ methods[i].fn = Accessor("DeleteLambda") /\ CapabilitiesOf(methods[i].fn) = {"Write"}

====
